---- MODULE Spec2Model ----
(***************************************************************************)
(* spotify2bs.py: resolve a track list against the BeatSaver catalog.      *)
(*                                                                         *)
(* Strings are tuples of one-character strings so that lower(), the label  *)
(* f"{artist} - {track}" and the directory name can be computed.  A JSON   *)
(* field that may be absent (or a Python value that may be None) is a set  *)
(* with at most one element: {} is absent/None, {v} is the value v.        *)
(* Scores are in tenths: 9 stands for 0.9.                                 *)
(***************************************************************************)
EXTENDS Integers, Sequences, FiniteSets, TLC

\* ------------------------------------------------------------------ bounds
MaxTracks == 2
MaxDocs == 3
MaxPartLen == 2

\* ------------------------------------------------------- program constants
MIN_RATE == 5
MaxAttempts == 3
ArtistGate == 80

\* ----------------------------------------------------------------- strings
LowerChar(c) ==
  CASE c = "A" -> "a"
    [] c = "B" -> "b"
    [] c = "F" -> "f"
    [] c = "O" -> "o"
    [] OTHER -> c

\* str.lower()
Lower(s) == [k \in 1..Len(s) |-> LowerChar(s[k])]

\* dict.get(key, default) on a field that may be absent
Get(opt, default) == IF opt = {} THEN default ELSE CHOOSE v \in opt : TRUE

\* ----------------------------------------------------------- catalog docs
\* A doc as the catalog's JSON gives it:
\*   [id, name, metadata : absent or [songName, songAuthorName], stats : absent or [score]]
\* with name, songName, songAuthorName and score each absent or present.
Meta(songName, songAuthorName) == {[songName |-> songName, songAuthorName |-> songAuthorName]}
Stats(score) == {[score |-> score]}
NoMeta == [songName |-> {}, songAuthorName |-> {}]
NoStats == [score |-> {}]

\* d.get('metadata', {}).get('songName', d.get('name', ''))
DisplayName(d) == Get(Get(d.metadata, NoMeta).songName, Get(d.name, <<>>))

\* d.get('metadata', {}).get('songAuthorName', '')
Author(d) == Get(Get(d.metadata, NoMeta).songAuthorName, <<>>)

\* d.get('stats', {}).get('score', 0)
Score(d) == Get(Get(d.stats, NoStats).score, 0)

\* `if artist_name:` is false for None and for the empty string
Truthy(artist) == artist # {} /\ Get(artist, <<>>) # <<>>

\* The loop of best_map: keep the docs whose display name equals the track
\* under lower() and, when an artist is given, whose author passes the gate.
\* ratio is fuzz.partial_ratio as a function of its two arguments.
\* (as Keeps, with the gate rejecting a score of exactly ArtistGate)
Keeps_GateExclusive(d, track_name, artist_name, ratio) ==
  /\ Lower(DisplayName(d)) = Lower(track_name)
  /\ Truthy(artist_name) =>
       ~ (ratio[<<Lower(Get(artist_name, <<>>)), Lower(Author(d))>>] <= ArtistGate)

Keeps(d, track_name, artist_name, ratio) ==
  /\ Lower(DisplayName(d)) = Lower(track_name)
  /\ Truthy(artist_name) =>
       ~ (ratio[<<Lower(Get(artist_name, <<>>)), Lower(Author(d))>>] < ArtistGate)

RECURSIVE Filtered(_, _, _, _)
Filtered(ds, track_name, artist_name, ratio) ==
  IF ds = <<>> THEN <<>>
  ELSE LET d == Head(ds)
           rest == Filtered(Tail(ds), track_name, artist_name, ratio)
       IN IF Keeps(d, track_name, artist_name, ratio) THEN <<d>> \o rest ELSE rest

\* list.sort(key=score, reverse=True): stable, equal keys keep their order.
\* Insert x behind every element whose score is >= x's.
\* (as InsertDesc, with x put before the elements of equal score)
RECURSIVE InsertDesc_Unstable(_, _)
InsertDesc_Unstable(x, sorted) ==
  IF sorted = <<>> THEN <<x>>
  ELSE IF Score(Head(sorted)) > Score(x)
       THEN <<Head(sorted)>> \o InsertDesc_Unstable(x, Tail(sorted))
       ELSE <<x>> \o sorted

RECURSIVE InsertDesc(_, _)
InsertDesc(x, sorted) ==
  IF sorted = <<>> THEN <<x>>
  ELSE IF Score(Head(sorted)) >= Score(x)
       THEN <<Head(sorted)>> \o InsertDesc(x, Tail(sorted))
       ELSE <<x>> \o sorted

RECURSIVE SortDesc(_)
SortDesc(s) ==
  IF s = <<>> THEN <<>>
  ELSE InsertDesc(s[Len(s)], SortDesc(SubSeq(s, 1, Len(s) - 1)))

\* (as BestMap, without the comparison against MIN_RATE)
BestMap_NoThreshold(ds, track_name, artist_name, ratio) ==
  LET kept == Filtered(ds, track_name, artist_name, ratio)
  IN IF kept = <<>> THEN {} ELSE {SortDesc(kept)[1]}

\* best_map after the search returned docs: absent ({}) or the chosen doc
BestMap(ds, track_name, artist_name, ratio) ==
  LET kept == Filtered(ds, track_name, artist_name, ratio)
  IN IF kept = <<>> THEN {}
     ELSE LET top == SortDesc(kept)[1]
          IN IF Score(top) >= MIN_RATE THEN {top} ELSE {}

\* ------------------------------------------------------- directory naming
Allowed ==
  {"A","B","C","D","E","F","G","H","I","J","K","L","M","N","O","P","Q","R","S","T",
   "U","V","W","X","Y","Z","a","b","c","d","e","f","g","h","i","j","k","l","m","n",
   "o","p","q","r","s","t","u","v","w","x","y","z","0","1","2","3","4","5","6","7",
   "8","9","-"," "}

\* re.sub(r"[^A-Za-z0-9- ]", "", s)
RECURSIVE Strip_disallowed(_)
Strip_disallowed(s) ==
  IF s = <<>> THEN <<>>
  ELSE IF Head(s) \in Allowed THEN <<Head(s)>> \o Strip_disallowed(Tail(s))
       ELSE Strip_disallowed(Tail(s))

\* str.strip(): after the substitution the only whitespace left is " "
RECURSIVE Trim(_)
Trim(s) ==
  IF s = <<>> THEN <<>>
  ELSE IF Head(s) = " " THEN Trim(Tail(s))
       ELSE IF s[Len(s)] = " " THEN Trim(SubSeq(s, 1, Len(s) - 1))
            ELSE s

\* str.replace(" ", "_")
Underscore(s) == [k \in 1..Len(s) |-> IF s[k] = " " THEN "_" ELSE s[k]]

\* (as Clean, with the spaces replaced before the strip)
Clean_ReplaceFirst(s) == Trim(Underscore(Strip_disallowed(s)))

Clean(s) == Underscore(Trim(Strip_disallowed(s)))

\* Path(OUT_DIR) / f"{artist_clean}-{track_clean}", as the name under OUT_DIR
DestDir(artist, track) == Clean(artist) \o <<"-">> \o Clean(track)

\* f"{artist_name} - {track_name}"; None prints as "None"
Label(t) == Get(t.artist, <<"N","o","n","e">>) \o <<" ","-"," ">> \o t.track

\* ------------------------------------------------------------------ inputs
\* Track list entries: item['track'] and item.get('artist')
TA == [artist |-> {<<"A","b">>}, track |-> <<"F","o">>]
TB == [artist |-> {<<"A","b">>}, track |-> <<"F",".","o">>]
TC == [artist |-> {}, track |-> <<"F","o">>]
TrackRefs == {TA, TB, TC}

Doc(id, name, metadata, stats) ==
  [id |-> id, name |-> name, metadata |-> metadata, stats |-> stats]

D1 == Doc(1, {}, Meta({<<"F","O">>}, {<<"A","B">>}), Stats({9}))
D2 == Doc(2, {<<"z">>}, Meta({<<"f","o">>}, {<<"x">>}), Stats({7}))
D3 == Doc(3, {<<"F","o">>}, {}, Stats({9}))
D4 == Doc(4, {}, Meta({<<"F","o","s">>}, {<<"A","B">>}), Stats({9}))
D5 == Doc(5, {}, Meta({<<"F","o">>}, {<<"A","B">>}), Stats({4}))
D6 == Doc(6, {}, Meta({<<"F","o">>}, {<<"B">>}), {})
D7 == Doc(7, {}, Meta({<<"f","O">>}, {<<"A","B">>}), Stats({5}))
D8 == Doc(8, {}, Meta({<<"F","o">>}, {<<"x">>}), Stats({9}))
D9 == Doc(9, {}, Meta({<<"f",".","O">>}, {<<"A","B">>}), Stats({7}))

\* Sequences over S of length at most n
SeqUpTo(S, n) == UNION {[1..k -> S] : k \in 0..n}

\* fuzz.partial_ratio is a library function of two strings with values in
\* 0..100.  Equal strings score 100 and an empty author scores 0; how it
\* scores any other pair is the library's business, so every such pair may
\* score on either side of the gate.
RatioArtists == {<<"a","b">>}
RatioAuthors == {<<"a","b">>, <<"x">>, <<"b">>, <<>>}
RatioFns ==
  {f \in [RatioArtists \X RatioAuthors -> {0, 79, 80, 100}] :
     \A p \in RatioArtists \X RatioAuthors :
       IF p[1] = p[2] THEN f[p] = 100
       ELSE IF p[2] = <<>> THEN f[p] = 0
       ELSE f[p] \in {79, 80}}

\* The runs of main are explored with a library that scores every such pair
\* at the gate; best_map alone is explored with every RatioFns.
RunRatioFns == {f \in RatioFns : \A p \in DOMAIN f : f[p] # 79}

\* What the catalog may answer to a search request: a status and, for a
\* body that parses, its "docs" field (absent, or a list).
SearchStatuses == {200, 404, 403, 500}
RunDocLists == SeqUpTo({D1, D9}, 1)
SearchResponses ==
  {[status |-> st, docs |-> ds] :
     st \in {200}, ds \in {{}} \cup {{l} : l \in RunDocLists}}
  \cup {[status |-> st, docs |-> {}] : st \in SearchStatuses \ {200}}

\* What the download endpoint may answer: a status and a body.  An archive
\* is its entry names and whether zipfile can read all of it.
Archives ==
  {[entries |-> <<"Info.dat", "song.egg">>, good |-> TRUE],
   [entries |-> <<"Info.dat", "song.egg">>, good |-> FALSE]}
DownloadStatuses == {200, 404}

NoArchive == [entries |-> <<>>, good |-> FALSE]

Range(s) == {s[k] : k \in DOMAIN s}

\* ------------------------------------------------------------------- state
VARIABLES
  tracks,         \* load_tracks(): the track list
  partial_ratio,  \* the library's fuzz.partial_ratio
  i,              \* position of the for loop of main in tracks
  pc,             \* where the program is: search, download, extract, unlink,
                  \* pause, report, done (select, selected: best_map alone)
  attempt,        \* tenacity's attempt number of the running beat_search
  tier,           \* the request beat_search issues next: 1 quoted, 2 text, 3 advanced
  raised,         \* the requests whose HTTPError ended the earlier attempts
  log,            \* the requests of the current track with their answers, since
                  \* beat_search was last entered
  docs,           \* what beat_search returned
  filtered,       \* best_map's list of the docs that passed its loop
  hit,            \* what best_map returned: {} is None
  archive,        \* r.content of the download
  fs,             \* OUT_DIR: directory name |-> the file names in it
  downloaded,     \* main's downloaded list
  not_found,      \* main's not_found list
  reports,        \* downloaded.txt and not_found.txt: left as they were before
                  \* the run (absent, or an earlier run's), or the lines written
  before          \* the files dest_dir held when download_and_extract made it

vars ==
  <<tracks, partial_ratio, i, pc, attempt, raised, tier, log, docs, filtered, hit,
    archive, fs, downloaded, not_found, reports, before>>

item == tracks[i]

TIMEOUT == 0

Entry(kind, status, ds) ==
  [kind |-> kind, attempt |-> attempt, tier |-> tier, status |-> status, docs |-> ds]

\* r.raise_for_status() raises requests.HTTPError for 400 <= status < 600
RaisesForStatus(status) == status >= 400 /\ status < 600

\* (as TierResult, without the branch for 404)
TierResult_404Raises(r) ==
  IF r.status >= 500 THEN [raises |-> "HTTPError", docs |-> <<>>]
  ELSE IF RaisesForStatus(r.status) THEN [raises |-> "HTTPError", docs |-> <<>>]
  ELSE [raises |-> "", docs |-> Get(r.docs, <<>>)]

\* One tier of beat_search on its response: the docs it yields, or the
\* exception it raises.
TierResult(r) ==
  IF r.status = 404 THEN [raises |-> "", docs |-> <<>>]
  ELSE IF r.status >= 500 THEN [raises |-> "HTTPError", docs |-> <<>>]
  ELSE IF RaisesForStatus(r.status) THEN [raises |-> "HTTPError", docs |-> <<>>]
  ELSE [raises |-> "", docs |-> Get(r.docs, <<>>)]

\* (as Retries, stopping one attempt late)
Retries_OneMore(exc, n) == exc = "HTTPError" /\ n <= MaxAttempts

\* retry=retry_if_exception_type(requests.HTTPError), stop=stop_after_attempt(3)
Retries(exc, n) == exc = "HTTPError" /\ n < MaxAttempts

\* (as RetryTier, re-issuing only the request that failed)
RetryTier_SameTier(t) == t

\* A retry calls beat_search again, from its first line
RetryTier(t) == 1

\* (as Miss, with the exception leaving the loop)
Miss_Aborts ==
  /\ pc' = "done"
  /\ UNCHANGED <<downloaded, not_found>>

\* (as Miss, with a `continue` that skips the sleep)
Miss_SkipsPause ==
  /\ not_found' = Append(not_found, Label(item))
  /\ pc' = IF i < Len(tracks) THEN "search" ELSE "report"
  /\ UNCHANGED downloaded

\* (as Miss, without the append)
Miss_Unrecorded ==
  /\ pc' = "pause"
  /\ UNCHANGED <<downloaded, not_found>>

\* main's except clause, and the else branches that record a miss
Miss ==
  /\ not_found' = Append(not_found, Label(item))
  /\ pc' = "pause"
  /\ UNCHANGED downloaded

\* beat_search returned ds: the rest of best_map, then main's `if hit`
Returned(ds) ==
  /\ docs' = ds
  /\ filtered' = Filtered(ds, item.track, item.artist, partial_ratio)
  /\ hit' = BestMap(ds, item.track, item.artist, partial_ratio)
  /\ IF hit' = {} THEN Miss
     ELSE pc' = "download" /\ UNCHANGED <<downloaded, not_found>>

\* A report file: what was there before the run, or what open(.., "w") and
\* f.write("\n".join(labels)) put there
AsBefore == [written |-> FALSE, lines |-> <<>>]
Written(labels) == [written |-> TRUE, lines |-> labels]

ZipName(id) == ToString(id) \o ".zip"

Init ==
  /\ tracks \in SeqUpTo(TrackRefs, MaxTracks)
  /\ partial_ratio \in RunRatioFns
  /\ i = 1
  /\ pc = IF tracks = <<>> THEN "report" ELSE "search"
  /\ attempt = 1
  /\ raised = <<>>
  /\ tier = 1
  /\ log = <<>>
  /\ docs = <<>>
  /\ filtered = <<>>
  /\ hit = {}
  /\ archive = NoArchive
  /\ fs = <<>>
  /\ downloaded = <<>>
  /\ not_found = <<>>
  /\ reports = [downloaded |-> AsBefore, not_found |-> AsBefore]
  /\ before = {}

\* requests.get raises Timeout/ConnectionError: not an HTTPError, so tenacity
\* lets it through to main
SearchTimeout ==
  /\ pc = "search"
  /\ log' = Append(log, Entry("search", TIMEOUT, <<>>))
  /\ Miss
  /\ UNCHANGED <<tracks, partial_ratio, i, attempt, raised, tier, docs, filtered, hit, archive, fs, reports, before>>

\* A tier raises HTTPError: tenacity waits and calls beat_search again, or
\* gives up with RetryError
SearchHTTPError(r) ==
  /\ pc = "search"
  /\ TierResult(r).raises # ""
  /\ IF Retries(TierResult(r).raises, attempt)
     THEN /\ attempt' = attempt + 1
          /\ raised' = Append(raised, Entry("search", r.status, <<>>))
          /\ tier' = RetryTier(tier)
          /\ log' = <<>>
          /\ UNCHANGED <<pc, downloaded, not_found>>
     ELSE /\ log' = Append(log, Entry("search", r.status, <<>>))
          /\ Miss
          /\ UNCHANGED <<attempt, raised, tier>>
  /\ UNCHANGED <<tracks, partial_ratio, i, docs, filtered, hit, archive, fs, reports, before>>

\* A tier yields no docs: the next tier, or after the last one return []
SearchZero(r) ==
  /\ pc = "search"
  /\ TierResult(r).raises = ""
  /\ TierResult(r).docs = <<>>
  /\ log' = Append(log, Entry("search", r.status, <<>>))
  /\ IF tier < 3
     THEN /\ tier' = tier + 1
          /\ UNCHANGED <<pc, docs, filtered, hit, downloaded, not_found>>
     ELSE /\ Returned(<<>>)
          /\ UNCHANGED tier
  /\ UNCHANGED <<tracks, partial_ratio, i, attempt, raised, archive, fs, reports, before>>

\* (as SearchDocs, going on to the next tier all the same)
SearchDocs_FallsThrough(r) ==
  /\ pc = "search"
  /\ TierResult(r).raises = ""
  /\ TierResult(r).docs # <<>>
  /\ log' = Append(log, Entry("search", r.status, TierResult(r).docs))
  /\ IF tier < 3
     THEN /\ tier' = tier + 1
          /\ UNCHANGED <<pc, docs, filtered, hit, downloaded, not_found>>
     ELSE /\ Returned(TierResult(r).docs)
          /\ UNCHANGED tier
  /\ UNCHANGED <<tracks, partial_ratio, i, attempt, raised, archive, fs, reports, before>>

\* A tier yields docs: beat_search returns them
SearchDocs(r) ==
  /\ pc = "search"
  /\ TierResult(r).raises = ""
  /\ TierResult(r).docs # <<>>
  /\ log' = Append(log, Entry("search", r.status, TierResult(r).docs))
  /\ Returned(TierResult(r).docs)
  /\ UNCHANGED <<tracks, partial_ratio, i, attempt, raised, tier, archive, fs, reports, before>>

\* dest_dir of the current track; zip_path's name in it
dest_dir == DestDir(Get(item.artist, <<>>), item.track)
zip_name == ZipName(Get(hit, D1).id)

Files(dir) == IF dir \in DOMAIN fs THEN fs[dir] ELSE {}

\* fs with the directory dir holding files
WithDir(dir, files) ==
  [d \in DOMAIN fs \cup {dir} |-> IF d = dir THEN files ELSE fs[d]]

\* The download request times out: the exception reaches main
DownloadTimeout ==
  /\ pc = "download"
  /\ log' = Append(log, Entry("download", TIMEOUT, <<>>))
  /\ Miss
  /\ UNCHANGED <<tracks, partial_ratio, i, attempt, raised, tier, docs, filtered, hit, archive, fs, reports, before>>

\* (as DownloadRefused, with dest_dir made before the status is looked at)
DownloadRefused_MakesDir(status) ==
  /\ pc = "download"
  /\ status # 200
  /\ log' = Append(log, Entry("download", status, <<>>))
  /\ fs' = WithDir(dest_dir, Files(dest_dir))
  /\ Miss
  /\ UNCHANGED <<tracks, partial_ratio, i, attempt, raised, tier, docs, filtered, hit, archive, reports, before>>

\* status_code != 200: download_and_extract returns False
DownloadRefused(status) ==
  /\ pc = "download"
  /\ status # 200
  /\ log' = Append(log, Entry("download", status, <<>>))
  /\ Miss
  /\ UNCHANGED <<tracks, partial_ratio, i, attempt, raised, tier, docs, filtered, hit, archive, fs, reports, before>>

\* status 200, then re.sub on an artist that is None raises TypeError, or
\* mkdir / open raise OSError
DownloadFsError(oserror) ==
  /\ pc = "download"
  /\ item.artist = {} \/ oserror
  /\ log' = Append(log, Entry("download", 200, <<>>))
  /\ Miss
  /\ UNCHANGED <<tracks, partial_ratio, i, attempt, raised, tier, docs, filtered, hit, archive, fs, reports, before>>

\* status 200: the directory is made if absent and the body written to zip_path
DownloadWritten(body) ==
  /\ pc = "download"
  /\ item.artist # {}
  /\ log' = Append(log, Entry("download", 200, <<>>))
  /\ before' = Files(dest_dir)
  /\ fs' = WithDir(dest_dir, Files(dest_dir) \cup {zip_name})
  /\ archive' = body
  /\ pc' = "extract"
  /\ UNCHANGED <<tracks, partial_ratio, i, attempt, raised, tier, docs, filtered, hit, downloaded,
                 not_found, reports>>

\* (as Extract, stopping after the first entry without raising)
Extract_FirstEntryOnly ==
  /\ pc = "extract"
  /\ archive.good
  /\ fs' = WithDir(dest_dir, Files(dest_dir) \cup Range(SubSeq(archive.entries, 1, 1)))
  /\ pc' = "unlink"
  /\ UNCHANGED <<tracks, partial_ratio, i, attempt, raised, tier, log, docs, filtered, hit, archive,
                 downloaded, not_found, reports, before>>

\* zipfile reads the whole archive: every entry lands in dest_dir
Extract ==
  /\ pc = "extract"
  /\ archive.good
  /\ fs' = WithDir(dest_dir, Files(dest_dir) \cup Range(archive.entries))
  /\ pc' = "unlink"
  /\ UNCHANGED <<tracks, partial_ratio, i, attempt, raised, tier, log, docs, filtered, hit, archive,
                 downloaded, not_found, reports, before>>

\* (as ExtractFails, with zip_path unlinked on the way out)
ExtractFails_RemovesArchive(n) ==
  /\ pc = "extract"
  /\ ~ archive.good
  /\ n < Len(archive.entries)
  /\ fs' = WithDir(dest_dir, (Files(dest_dir) \cup Range(SubSeq(archive.entries, 1, n))) \ {zip_name})
  /\ Miss
  /\ UNCHANGED <<tracks, partial_ratio, i, attempt, raised, tier, log, docs, filtered, hit, archive, reports, before>>

\* zipfile raises on a corrupt archive: on opening it (n = 0) or in
\* extractall after n of the entries
ExtractFails(n) ==
  /\ pc = "extract"
  /\ ~ archive.good
  /\ n < Len(archive.entries)
  /\ fs' = WithDir(dest_dir, Files(dest_dir) \cup Range(SubSeq(archive.entries, 1, n)))
  /\ Miss
  /\ UNCHANGED <<tracks, partial_ratio, i, attempt, raised, tier, log, docs, filtered, hit, archive, reports, before>>

\* (as Unlink, without the unlink)
Unlink_KeepsArchive ==
  /\ pc = "unlink"
  /\ UNCHANGED fs
  /\ downloaded' = Append(downloaded, Label(item))
  /\ pc' = "pause"
  /\ UNCHANGED <<tracks, partial_ratio, i, attempt, raised, tier, log, docs, filtered, hit, archive,
                 not_found, reports, before>>

\* zip_path.unlink(); return True; main appends to downloaded
Unlink ==
  /\ pc = "unlink"
  /\ fs' = WithDir(dest_dir, Files(dest_dir) \ {zip_name})
  /\ downloaded' = Append(downloaded, Label(item))
  /\ pc' = "pause"
  /\ UNCHANGED <<tracks, partial_ratio, i, attempt, raised, tier, log, docs, filtered, hit, archive,
                 not_found, reports, before>>

\* (as Pause, with a loop that does not move on to the next item)
Pause_SameTrack ==
  /\ pc = "pause"
  /\ i' = i
  /\ pc' = IF i < Len(tracks) THEN "search" ELSE "report"
  /\ attempt' = 1
  /\ raised' = <<>>
  /\ tier' = 1
  /\ log' = <<>>
  /\ docs' = <<>>
  /\ filtered' = <<>>
  /\ hit' = {}
  /\ archive' = NoArchive
  /\ before' = {}
  /\ UNCHANGED <<tracks, partial_ratio, fs, downloaded, not_found, reports>>

\* time.sleep, then the next item of the loop, or the end of the loop
Pause ==
  /\ pc = "pause"
  /\ i' = i + 1
  /\ pc' = IF i < Len(tracks) THEN "search" ELSE "report"
  /\ attempt' = 1
  /\ raised' = <<>>
  /\ tier' = 1
  /\ log' = <<>>
  /\ docs' = <<>>
  /\ filtered' = <<>>
  /\ hit' = {}
  /\ archive' = NoArchive
  /\ before' = {}
  /\ UNCHANGED <<tracks, partial_ratio, fs, downloaded, not_found, reports>>

\* After the loop: each report file is written only if its list is not empty
WriteReports ==
  /\ pc = "report"
  /\ reports' =
       [downloaded |-> IF downloaded # <<>> THEN Written(downloaded) ELSE reports.downloaded,
        not_found |-> IF not_found # <<>> THEN Written(not_found) ELSE reports.not_found]
  /\ pc' = "done"
  /\ UNCHANGED <<tracks, partial_ratio, i, attempt, raised, tier, log, docs, filtered, hit, archive, fs,
                 downloaded, not_found, before>>

Next ==
  \/ SearchTimeout
  \/ \E r \in SearchResponses : SearchHTTPError(r)
  \/ \E r \in SearchResponses : SearchZero(r)
  \/ \E r \in SearchResponses : SearchDocs(r)
  \/ DownloadTimeout
  \/ \E status \in DownloadStatuses : DownloadRefused(status)
  \/ \E oserror \in BOOLEAN : DownloadFsError(oserror)
  \/ \E body \in Archives : DownloadWritten(body)
  \/ Extract
  \/ \E n \in 0..1 : ExtractFails(n)
  \/ Unlink
  \/ Pause
  \/ WriteReports

Spec == Init /\ [][Next]_vars

\* main is one sequential program: every request has a timeout, every sleep
\* ends, so a program that is not at its end takes its next step
FairSpec == Spec /\ WF_vars(Next)

\* ------------------------------------------------ the directory name alone
\* Lines 158-161 of download_and_extract on every artist and track name up to
\* MaxPartLen characters of CleanChars, and on the longer CleanExamples.
CleanChars == {"a", "9", " ", "-", "/", "_"}
CleanExamples ==
  {<<"A","C","/","D","C">>, <<"T",".","N",".","T",".">>, <<" ","a"," "," ","Z"," ">>,
   <<"a"," ","b">>, <<"_"," ","-"," ","/">>}
CleanNames == SeqUpTo(CleanChars, MaxPartLen) \cup CleanExamples

CleanInit ==
  /\ tracks \in {<<[artist |-> {a}, track |-> t]>> : a \in CleanNames, t \in CleanNames}
  /\ partial_ratio \in RunRatioFns
  /\ i = 1
  /\ pc = "clean"
  /\ attempt = 1
  /\ raised = <<>>
  /\ tier = 1
  /\ log = <<>>
  /\ docs = <<D1>>
  /\ filtered = <<D1>>
  /\ hit = {D1}
  /\ archive = NoArchive
  /\ fs = <<>>
  /\ downloaded = <<>>
  /\ not_found = <<>>
  /\ reports = [downloaded |-> AsBefore, not_found |-> AsBefore]
  /\ before = {}

\* artist_clean, track_clean, dest_dir and dest_dir.mkdir
MakeDestDir ==
  /\ pc = "clean"
  /\ fs' = WithDir(dest_dir, Files(dest_dir))
  /\ pc' = "cleaned"
  /\ UNCHANGED <<tracks, partial_ratio, i, attempt, raised, tier, log, docs, filtered, hit, archive,
                 downloaded, not_found, reports, before>>

CleanNext == MakeDestDir

CleanSpec == CleanInit /\ [][CleanNext]_vars

\* ---------------------------------------------------------- best_map alone
\* best_map on the docs a search returned, for every bounded candidate list,
\* target and scoring of the library.
SelectDocs == {D1, D2, D3, D4, D5, D6, D7, D8}
SelectTargets ==
  {[artist |-> a, track |-> t] :
     a \in {{<<"A","b">>}, {<<>>}, {}}, t \in {<<"F","o">>, <<"f","o","s">>}}

SelectInit ==
  /\ tracks \in {<<t>> : t \in SelectTargets}
  /\ partial_ratio \in RatioFns
  /\ i = 1
  /\ pc = "select"
  /\ attempt = 1
  /\ raised = <<>>
  /\ tier = 1
  /\ log = <<>>
  /\ docs \in SeqUpTo(SelectDocs, MaxDocs)
  /\ filtered = <<>>
  /\ hit = {}
  /\ archive = NoArchive
  /\ fs = <<>>
  /\ downloaded = <<>>
  /\ not_found = <<>>
  /\ reports = [downloaded |-> AsBefore, not_found |-> AsBefore]
  /\ before = {}

Select ==
  /\ pc = "select"
  /\ filtered' = Filtered(docs, item.track, item.artist, partial_ratio)
  /\ hit' = BestMap(docs, item.track, item.artist, partial_ratio)
  /\ pc' = "selected"
  /\ UNCHANGED <<tracks, partial_ratio, i, attempt, raised, tier, log, docs, archive, fs,
                 downloaded, not_found, reports, before>>

SelectNext == Select

SelectSpec == SelectInit /\ [][SelectNext]_vars

\* ================================================================== claims
Last(s) == s[Len(s)]

\* The greatest score in a non-empty list, and the first doc that has it
TopScore(s) == CHOOSE m \in {Score(s[k]) : k \in DOMAIN s} : \A k \in DOMAIN s : Score(s[k]) <= m
FirstTop(s) ==
  s[CHOOSE k \in DOMAIN s :
      Score(s[k]) = TopScore(s) /\ \A j \in 1..(k - 1) : Score(s[j]) < TopScore(s)]

\* C7: whatever best_map returns has a display name equal to the target
\* track once both are lower-cased, and carries a score that is present and
\* at least MIN_RATE.
C7_SelectedMatchesTitleAndRate ==
  pc = "selected" =>
    \A h \in hit :
      /\ Lower(DisplayName(h)) = Lower(item.track)
      /\ h.stats # {}
      /\ \A st \in h.stats : st.score # {} /\ \A sc \in st.score : sc >= MIN_RATE

\* A doc whose name differs from the target only in case is returned with a
\* score of exactly MIN_RATE, although a better-scored doc with a longer
\* title was among the candidates.
C7_Witness ==
  /\ pc = "selected"
  /\ \E h \in hit : DisplayName(h) # item.track /\ Score(h) = MIN_RATE
  /\ \E k \in DOMAIN docs :
       /\ Len(DisplayName(docs[k])) > Len(item.track)
       /\ SubSeq(Lower(DisplayName(docs[k])), 1, Len(item.track)) = Lower(item.track)
       /\ Score(docs[k]) > MIN_RATE

\* C8: best_map returns the first of the top-scored docs of filtered when
\* that score is at least MIN_RATE, and None otherwise.
C8_FirstTopScoredOrNone ==
  pc = "selected" =>
    hit = IF filtered = <<>> THEN {}
          ELSE IF TopScore(filtered) >= MIN_RATE THEN {FirstTop(filtered)} ELSE {}

\* Two different docs tie at the top behind a lower-scored one, and the
\* earlier of the two is returned.
C8_Witness ==
  /\ pc = "selected"
  /\ Len(filtered) = 3
  /\ Score(filtered[1]) < Score(filtered[2])
  /\ Score(filtered[2]) = Score(filtered[3])
  /\ filtered[2] # filtered[3]
  /\ hit = {filtered[2]}

\* C9: with an artist given (not None, not empty) a doc is kept iff its
\* title matches and partial_ratio of the lower-cased artist and author is
\* at least 80; with no artist every doc whose title matches is kept; and
\* with nothing kept the result is None.
C9_ArtistGate ==
  pc = "selected" =>
    LET provided == item.artist # {} /\ item.artist # {<<>>}
        exact(d) == Lower(DisplayName(d)) = Lower(item.track)
        sim(d) == partial_ratio[<<Lower(Get(item.artist, <<>>)), Lower(Author(d))>>]
        kept(d) == exact(d) /\ (provided => sim(d) >= 80)
    IN /\ \A k \in DOMAIN docs : (\E j \in DOMAIN filtered : filtered[j] = docs[k]) <=> kept(docs[k])
       /\ filtered = <<>> => hit = {}

\* With an artist given, one matching doc scores exactly 80 and is kept and
\* another scores 79 and is dropped.
C9_Witness ==
  /\ pc = "selected"
  /\ item.artist # {} /\ item.artist # {<<>>}
  /\ \E k, l \in DOMAIN docs :
       /\ Lower(DisplayName(docs[k])) = Lower(item.track)
       /\ Lower(DisplayName(docs[l])) = Lower(item.track)
       /\ partial_ratio[<<Lower(Get(item.artist, <<>>)), Lower(Author(docs[k]))>>] = 80
       /\ partial_ratio[<<Lower(Get(item.artist, <<>>)), Lower(Author(docs[l]))>>] = 79
       /\ \E j \in DOMAIN filtered : filtered[j] = docs[k]
       /\ \A j \in DOMAIN filtered : filtered[j] # docs[l]

\* ------------------------------------------------- claims about beat_search
IsSearch(e) == e.kind = "search"
IsDownload(e) == e.kind = "download"

\* The search requests of the running attempt, in the order issued
SearchLog == SelectSeq(log, IsSearch)

\* A request that yielded zero results: 404, or 2xx without docs
ZeroResult(e) == e.status = 404 \/ (e.status \in 200..299 /\ e.docs = <<>>)

\* A status that is not 2xx, not 404 and not 5xx
ClientError(status) == status \in 300..499 /\ status # 404

\* C1 as stated: a 5xx re-issues only the failed tier, so once an attempt
\* was ended by a 5xx on the text or advanced tier, no earlier tier is
\* requested again in that search.
C1_CompletedTierNeverRequestedAgain ==
  \A k \in DOMAIN raised :
    raised[k].status >= 500 =>
      \A j \in DOMAIN SearchLog : ~ (SearchLog[j].tier < raised[k].tier)

\* At most 3 attempts; within one attempt the tiers are requested in order,
\* each at most once
C1_AttemptsInOrder ==
  /\ attempt \in 1..3
  /\ Len(raised) = attempt - 1
  /\ Len(SearchLog) <= 3
  /\ \A k \in DOMAIN SearchLog : SearchLog[k].tier = k /\ SearchLog[k].attempt = attempt
  /\ \A k \in DOMAIN raised : raised[k].attempt = k

\* A retried 5xx starts the next attempt at the quoted tier; a 5xx is left
\* standing only on the third attempt
C1_RestartStep ==
  /\ (Len(raised') = Len(raised) + 1 /\ Last(raised').status >= 500) =>
       (/\ attempt < 3
        /\ Last(raised').tier = tier
        /\ attempt' = attempt + 1
        /\ tier' = 1
        /\ pc' = "search"
        /\ log' = <<>>)
  /\ (pc = "search" /\ Len(log') = Len(log) + 1 /\ Last(log').status >= 500) =>
       attempt = 3

\* C1 amended: a 5xx answer with fewer than 3 attempts made starts
\* beat_search over at the quoted tier as the next attempt, whichever tier
\* failed; only a 5xx on the third attempt is left standing.  There are at
\* most 3 attempts, and within one attempt the tiers are requested in order,
\* each at most once.
C1_RetryRestartsWholeSearch == []C1_AttemptsInOrder /\ [][C1_RestartStep]_vars

\* After a 500 on the advanced tier the quoted tier has been requested again.
C1_Witness ==
  /\ Len(raised) = 1
  /\ raised[1].status = 500
  /\ raised[1].tier = 3
  /\ Len(log) = 1
  /\ log[1].kind = "search" /\ log[1].tier = 1 /\ log[1].attempt = 2

\* C2: a search answer that is not 2xx, not 404 and not 5xx is never
\* followed by another attempt of the same search.
C2_ClientErrorNotRetried ==
  \A k \in DOMAIN raised : ~ ClientError(raised[k].status)

\* C3 as stated: in a search whose quoted tier returned docs, the text and
\* advanced tiers were not requested at any time.
C3_OtherTiersNeverRequested ==
  (SearchLog # <<>> /\ SearchLog[1].docs # <<>>) =>
    /\ \A k \in DOMAIN SearchLog : SearchLog[k].tier = 1
    /\ \A k \in DOMAIN raised : raised[k].tier = 1

\* C3 amended: within one attempt of a search, tier k+1 is requested only
\* after tier k yielded zero results in that attempt; once the quoted tier
\* returns docs no further request is made for that search and beat_search
\* returns exactly those docs.  (The other tiers may have been requested in
\* an earlier attempt of the same search that ended in an HTTPError.)
C3_TierShortCircuit ==
  /\ \A k \in DOMAIN SearchLog : SearchLog[k].tier = k
  /\ \A k \in 1..(Len(SearchLog) - 1) : ZeroResult(SearchLog[k])
  /\ pc = "search" => tier = Len(SearchLog) + 1
  /\ (SearchLog # <<>> /\ SearchLog[1].docs # <<>>) =>
       /\ Len(SearchLog) = 1
       /\ pc \notin {"search", "select"}
       /\ docs = SearchLog[1].docs

\* The quoted tier returned docs at once and the track goes on to download.
C3_Witness ==
  /\ pc = "download"
  /\ raised = <<>>
  /\ Len(log) = 1
  /\ log[1].tier = 1 /\ log[1].docs # <<>>
  /\ docs = log[1].docs

\* C4: a search never has more than 3 attempts and a 5xx is left standing
\* only on the third.  After two attempts ended by 5xx, a third attempt that
\* is answered 200 makes beat_search return that answer's docs; a third one
\* that is answered 5xx ends the search with no result, no download request,
\* and the track in not_found.
C4_ThreeAttempts ==
  LET twice == Len(raised) = 2 /\ \A k \in DOMAIN raised : raised[k].status >= 500
      e == Last(SearchLog)
  IN /\ attempt <= 3 /\ Len(raised) <= 2
     /\ (SearchLog # <<>> /\ e.status >= 500) => attempt = 3
     /\ (twice /\ SearchLog # <<>> /\ e.status = 200 /\ (e.docs # <<>> \/ e.tier = 3)) =>
          /\ pc # "search"
          /\ docs = e.docs
     /\ (twice /\ SearchLog # <<>> /\ e.status >= 500) =>
          /\ pc = "pause"
          /\ log = SearchLog
          /\ docs = <<>> /\ hit = {}
          /\ not_found # <<>> /\ Last(not_found) = Label(item)
          /\ Len(downloaded) + Len(not_found) = i

\* The quoted tier answered 500, 500 and then 200 with docs that select.
C4_Witness ==
  /\ Len(raised) = 2
  /\ \A k \in DOMAIN raised : raised[k].status = 500 /\ raised[k].tier = 1
  /\ attempt = 3
  /\ Len(log) = 1 /\ log[1].status = 200 /\ log[1].docs # <<>>
  /\ pc = "download"

\* ------------------------------------------------------ claims about main
\* The number of tracks whose iteration of the loop has ended
Finished == IF pc = "pause" THEN i ELSE i - 1

\* The current track ended in an exception: a request timed out, the search
\* raised an HTTPError that was not retried, or the download was answered
\* 200 and no readable archive was unpacked
Excepted ==
  /\ pc = "pause"
  /\ log # <<>>
  /\ \/ Last(log).status = TIMEOUT
     \/ IsSearch(Last(log)) /\ Last(log).status >= 400 /\ Last(log).status # 404
     \/ IsDownload(Last(log)) /\ Last(log).status = 200 /\ ~ archive.good

\* C5: a track that ends in an exception is in not_found and the loop goes
\* on from there to its pause; the reports are reached only with every track
\* of the list finished.
C5_ExceptionsStayInTheTrack ==
  /\ Excepted =>
       /\ not_found # <<>> /\ Last(not_found) = Label(item)
       /\ Len(downloaded) + Len(not_found) = i
  /\ pc \in {"report", "done"} =>
       /\ i = Len(tracks) + 1
       /\ Len(downloaded) + Len(not_found) = Len(tracks)
  /\ Excepted => ENABLED Pause

\* The first of two tracks ended in a corrupt archive.
C5_Witness ==
  /\ Excepted
  /\ i = 1
  /\ Len(tracks) = 2
  /\ archive # NoArchive
  /\ not_found = <<Label(tracks[1])>>

Count(x, s) == Cardinality({k \in DOMAIN s : s[k] = x})

\* The labels of the tracks 1..n whose position is in S, in input order
RECURSIVE LabelsOf(_, _)
LabelsOf(S, n) ==
  IF n = 0 THEN <<>>
  ELSE LabelsOf(S, n - 1) \o (IF n \in S THEN <<Label(tracks[n])>> ELSE <<>>)

\* C6 as stated: at the end each track's label occurs exactly once in the
\* two lists together.
C6_EachLabelExactlyOnce ==
  pc = "done" =>
    \A k \in DOMAIN tracks :
      Count(Label(tracks[k]), downloaded) + Count(Label(tracks[k]), not_found) = 1

\* C6 amended: at every point the finished tracks split into two groups such
\* that downloaded is the labels of one group and not_found the labels of
\* the other, each in input order; so each finished track contributes one
\* entry to exactly one list, the lengths add up to the number of finished
\* tracks, and a label occurs as often as tracks carry it.
C6_ListsPartitionFinishedTracks ==
  /\ Len(downloaded) + Len(not_found) = Finished
  /\ \E D \in SUBSET (1..Finished) :
       /\ downloaded = LabelsOf(D, Finished)
       /\ not_found = LabelsOf((1..Finished) \ D, Finished)

\* Two tracks with different labels: the first missed, the second downloaded.
C6_Witness ==
  /\ pc = "done"
  /\ Len(tracks) = 2
  /\ Label(tracks[1]) # Label(tracks[2])
  /\ downloaded = <<Label(tracks[2])>>
  /\ not_found = <<Label(tracks[1])>>

\* Three 404s are three requests in tier order and end the track in
\* not_found; no 404 was retried; no download without a hit
C10_State ==
  /\ (Len(SearchLog) = 3 /\ \A k \in 1..3 : SearchLog[k].status = 404) =>
       /\ \A k \in 1..3 : SearchLog[k].tier = k
       /\ log = SearchLog
       /\ pc = "pause"
       /\ docs = <<>> /\ hit = {}
       /\ not_found # <<>> /\ Last(not_found) = Label(item)
  /\ \A k \in DOMAIN raised : raised[k].status # 404
  /\ (\E k \in DOMAIN log : IsDownload(log[k])) => hit # {}
  /\ pc \in {"download", "extract", "unlink"} => hit # {}

\* OUT_DIR changes only for a track with a hit; a 404 moves on to the next
\* tier, or ends the search, in the same attempt and leaves OUT_DIR alone
C10_Step ==
  /\ fs' # fs => (hit # {} /\ pc \in {"download", "extract", "unlink"})
  /\ (pc = "search" /\ Len(log') = Len(log) + 1 /\ Last(log').status = 404) =>
       (/\ attempt' = attempt
        /\ fs' = fs
        /\ IF tier < 3 THEN pc' = "search" /\ tier' = tier + 1 ELSE pc' = "pause")

\* C10: a search answered 404 on the quoted, text and advanced tier has
\* made exactly these three requests, in this order, and ends with the track
\* in not_found and no download request; a 404 never leads to another
\* attempt; a download request is issued, and OUT_DIR changed, only for a
\* track for which best_map returned a doc.
C10_NotFoundWithoutDownload == []C10_State /\ [][C10_Step]_vars

\* The only track's search was answered 404, 404, 404: it is in not_found
\* and OUT_DIR is empty.
C10_Witness ==
  /\ raised = <<>>
  /\ Len(log) = 3
  /\ \A k \in 1..3 : log[k].status = 404 /\ log[k].tier = k
  /\ pc = "pause"
  /\ not_found = <<Label(item)>>
  /\ fs = <<>>

\* ------------------------------------------------------------ C11 .. C19
\* The download requests of the current track
DownloadLog == SelectSeq(log, IsDownload)

\* A track has at most one download request, it is the last request of the
\* track, and no request of an earlier attempt was a download; a download
\* answered with a status other than 200 has ended the track in not_found
C11_State ==
  /\ Len(DownloadLog) <= 1
  /\ \A k \in DOMAIN raised : IsSearch(raised[k])
  /\ DownloadLog # <<>> =>
       /\ IsDownload(Last(log))
       /\ Len(SearchLog) = Len(log) - 1
       /\ pc \in {"extract", "unlink", "pause"}
  /\ (DownloadLog # <<>> /\ DownloadLog[1].status \notin {200, TIMEOUT}) =>
       /\ pc = "pause"
       /\ not_found # <<>> /\ Last(not_found) = Label(item)

\* Every step of download_and_extract's request issues the one request and
\* leaves the request behind; answered with a status other than 200 it
\* changes nothing in OUT_DIR and records the track as not found
C11_Step ==
  /\ (pc = "download" /\ pc' # pc) =>
       (/\ log' = Append(log, Last(log'))
        /\ IsDownload(Last(log'))
        /\ attempt' = attempt /\ i' = i)
  /\ (pc = "download" /\ log' # log /\ Last(log').status \notin {200, TIMEOUT}) =>
       (/\ fs' = fs
        /\ not_found' = Append(not_found, Label(item))
        /\ downloaded' = downloaded
        /\ pc' = "pause")

\* C11: download_and_extract issues exactly one download request for the
\* selected doc and never another one; answered with a status other than 200
\* it leaves OUT_DIR as it was and the track's label is appended to
\* not_found (and not to downloaded).
C11_OneDownloadRequest == []C11_State /\ [][C11_Step]_vars

\* The only track had a hit, its download was answered 404: OUT_DIR is
\* still empty and the track is in not_found.
C11_Witness ==
  /\ i = 1 /\ pc = "pause"
  /\ hit # {}
  /\ DownloadLog # <<>> /\ DownloadLog[1].status = 404
  /\ fs = <<>>
  /\ downloaded = <<>>
  /\ not_found = <<Label(item)>>

\* The files of directory dir in the file system f
In(f, dir) == IF dir \in DOMAIN f THEN f[dir] ELSE {}

\* While the archive is being read it is in dest_dir; when unlink is
\* reached every entry of it is there too; after a failed extraction the
\* archive is still there and the track is in not_found
C12_State ==
  /\ pc = "extract" => zip_name \in Files(dest_dir)
  /\ pc = "unlink" =>
       /\ archive.good
       /\ zip_name \in Files(dest_dir)
       /\ Range(archive.entries) \subseteq Files(dest_dir)
  /\ (pc = "pause" /\ archive # NoArchive /\ ~ archive.good) =>
       /\ zip_name \in Files(dest_dir)
       /\ not_found # <<>> /\ Last(not_found) = Label(item)

\* A file leaves OUT_DIR only as the archive that unlink removes after a
\* whole extraction; a failed extraction leaves the archive, appends the
\* track to not_found and nothing to downloaded; downloaded grows only at
\* unlink
C12_Step ==
  /\ \A dir \in DOMAIN fs : \A f \in fs[dir] :
       f \notin In(fs', dir) =>
         (/\ pc = "unlink"
          /\ dir = dest_dir /\ f = zip_name
          /\ Range(archive.entries) \subseteq fs[dir]
          /\ Range(archive.entries) \subseteq In(fs', dir))
  /\ (pc = "extract" /\ ~ archive.good /\ pc' # pc) =>
       (/\ zip_name \in In(fs', dest_dir)
        /\ pc' = "pause"
        /\ not_found' = Append(not_found, Label(item))
        /\ downloaded' = downloaded)
  /\ downloaded' # downloaded =>
       (/\ pc = "unlink" /\ archive.good
        /\ downloaded' = Append(downloaded, Label(item)))

\* C12: {id}.zip is removed only after every entry of it has been
\* extracted into dest_dir; when the extraction raises, the archive is not
\* removed, the track is not reported as downloaded and is recorded in
\* not_found.
C12_ArchiveRemovedAfterExtraction == []C12_State /\ [][C12_Step]_vars

\* A corrupt archive failed after its first entry: the entry and the archive
\* are in dest_dir, the second entry is not, the track is in not_found.
C12_Witness ==
  /\ pc = "pause"
  /\ archive # NoArchive /\ ~ archive.good
  /\ zip_name \in Files(dest_dir)
  /\ archive.entries[1] \in Files(dest_dir)
  /\ archive.entries[2] \notin Files(dest_dir)
  /\ downloaded = <<>>
  /\ Last(not_found) = Label(item)

Letters ==
  {"A","B","C","D","E","F","G","H","I","J","K","L","M","N","O","P","Q","R","S","T",
   "U","V","W","X","Y","Z","a","b","c","d","e","f","g","h","i","j","k","l","m","n",
   "o","p","q","r","s","t","u","v","w","x","y","z"}
Digits == {"0","1","2","3","4","5","6","7","8","9"}

\* The positions of s that survive: a letter, digit, "-" or " " that has a
\* letter, digit or "-" at or before it and one at or after it
Surviving(s) ==
  {k \in DOMAIN s :
     /\ s[k] \in Letters \cup Digits \cup {"-", " "}
     /\ \E j \in 1..k : s[j] \in Letters \cup Digits \cup {"-"}
     /\ \E j \in k..Len(s) : s[j] \in Letters \cup Digits \cup {"-"}}

\* p is s with the characters outside [A-Za-z0-9- ] removed, then trimmed,
\* then every space left replaced by "_"
IsPartOf(p, s) ==
  /\ Len(p) = Cardinality(Surviving(s))
  /\ \A k \in Surviving(s) :
       LET n == Cardinality({j \in Surviving(s) : j <= k})
       IN p[n] = IF s[k] = " " THEN "_" ELSE s[k]

\* C13: the directory made for (artist, track) is named
\* "{artist_clean}-{track_clean}", where each part is the input with the
\* characters outside [A-Za-z0-9- ] removed, then trimmed, then each space
\* left replaced by "_"; the name holds only letters, digits, "-" and "_";
\* ("AC/DC", "T.N.T.") gives "ACDC-TNT"; another artist name with the same
\* part gives the same directory.
C13_DirectoryName ==
  pc = "cleaned" =>
    LET artist == Get(item.artist, <<>>)
        track == item.track
    IN /\ Cardinality(DOMAIN fs) = 1
       /\ \A name \in DOMAIN fs :
            /\ \E n \in 1..Len(name) :
                 /\ name[n] = "-"
                 /\ IsPartOf(SubSeq(name, 1, n - 1), artist)
                 /\ IsPartOf(SubSeq(name, n + 1, Len(name)), track)
            /\ Range(name) \subseteq Letters \cup Digits \cup {"-", "_"}
            /\ (artist = <<"A","C","/","D","C">> /\ track = <<"T",".","N",".","T",".">>) =>
                 name = <<"A","C","D","C","-","T","N","T">>
            /\ \A other \in CleanExamples :
                 (other # artist /\ IsPartOf(Clean(artist), other)) =>
                   name = DestDir(other, track)

\* The directory of ("-", "T.N.T.") has been made; the artist "_ - /" has
\* the same part.
C13_Witness ==
  /\ pc = "cleaned"
  /\ item.artist = {<<"-">>}
  /\ item.track = <<"T",".","N",".","T",".">>
  /\ Clean(<<"_"," ","-"," ","/">>) = Clean(<<"-">>)
  /\ fs # <<>>

\* C14: a search request that times out (or cannot connect) is not retried:
\* it is the last request of the track, no further tier is requested and the
\* track is in not_found; and every attempt that was followed by another
\* one was ended by a 5xx answer.
C14_TimeoutEndsSearchOnlyServerErrorRetried ==
  /\ \A k \in DOMAIN log :
       (IsSearch(log[k]) /\ log[k].status = TIMEOUT) =>
         /\ k = Len(log)
         /\ pc = "pause"
         /\ not_found # <<>> /\ Last(not_found) = Label(item)
  /\ \A k \in DOMAIN raised :
       /\ raised[k].status # TIMEOUT
       /\ raised[k].status >= 500

\* download_and_extract has returned True for the current track
Acquired == pc = "pause" /\ archive # NoArchive /\ archive.good

\* C15: download_and_extract is not stopped by a dest_dir that already
\* exists (mkdir and the write of the archive go through), and when it
\* returns True it leaves in dest_dir what was there, the entries of the
\* archive and no {id}.zip; on a directory that a successful call for the same doc
\* and the same archive contents left, it leaves the directory as it was.
C15_AcquireIdempotent ==
  /\ (pc = "download" /\ item.artist # {} /\ dest_dir \in DOMAIN fs) =>
       ENABLED (\E body \in Archives : body.good /\ DownloadWritten(body))
  /\ Acquired =>
       /\ Files(dest_dir) = (before \cup Range(archive.entries)) \ {zip_name}
       /\ dest_dir \in DOMAIN fs
       /\ (Range(archive.entries) \subseteq before /\ zip_name \notin before) =>
            Files(dest_dir) = before

\* The same track twice, both times downloaded: the second call found the
\* directory as the first had left it, and left it so.
C15_Witness ==
  /\ Acquired
  /\ i = 2 /\ tracks[1] = tracks[2]
  /\ downloaded = <<Label(item), Label(item)>>
  /\ before = Range(archive.entries)
  /\ fs[dest_dir] = before

\* The program is between the first and the last step of a track
InTrack == pc \in {"search", "download", "extract", "unlink"}

\* As many pauses were taken as tracks were finished
C16_State ==
  InTrack => Len(downloaded) + Len(not_found) = i - 1

\* The loop moves to the next track only by the pause, which issues no
\* request and leaves the next track with none issued; a request is a step
\* of the current track; whatever ends a track leads to the pause; the
\* pause is followed by the next track or the end of the loop
C16_Step ==
  /\ i' # i =>
       (/\ pc = "pause"
        /\ i' = i + 1
        /\ log' = <<>> /\ raised' = <<>>
        /\ pc' \in {"search", "report"})
  /\ ((log' # log /\ log' # <<>>) \/ (raised' # raised /\ raised' # <<>>)) =>
       (InTrack /\ i' = i)
  /\ (InTrack /\ ~ InTrack') => pc' = "pause"
  /\ (pc = "pause" /\ pc' # pc) => i' = i + 1

\* C16: after every track, whether downloaded, not found or ended by a
\* caught exception, there is exactly one pause before the first request of
\* the next track: no search request of a track is issued without a pause
\* since the last request of the track before it.
C16_PauseBetweenTracks == []C16_State /\ [][C16_Step]_vars

\* The first track is behind (its exception was caught), the pause is taken,
\* the second track has issued no request yet.
C16_Witness ==
  /\ i = 2 /\ pc = "search"
  /\ log = <<>> /\ raised = <<>>
  /\ downloaded = <<>>
  /\ not_found = <<Label(tracks[1])>>

\* C17: after a run downloaded.txt holds the labels of downloaded and
\* not_found.txt the labels of not_found, one per line in order, also when
\* one of the lists is empty and its file was there from an earlier run (a
\* file that is AsBefore still holds the earlier run's lines).
C17_ReportsReflectTheRun ==
  pc = "done" =>
    /\ reports.downloaded = Written(downloaded)
    /\ reports.not_found = Written(not_found)

\* The loop is within the list and has finished no more tracks than there
\* are; a search is in one of 3 attempts, and an attempt has requested each
\* tier at most once, in order; a track has at most one download request;
\* at the end every track is finished
C18_Bounded ==
  /\ i \in 1..(Len(tracks) + 1)
  /\ Len(downloaded) + Len(not_found) <= Len(tracks)
  /\ attempt \in 1..3 /\ Len(raised) = attempt - 1
  /\ Len(SearchLog) <= 3
  /\ \A j, k \in DOMAIN SearchLog :
       /\ SearchLog[k].attempt = attempt
       /\ j < k => SearchLog[j].tier < SearchLog[k].tier
  /\ Len(DownloadLog) <= 1
  /\ pc = "done" =>
       /\ i = Len(tracks) + 1
       /\ Len(downloaded) + Len(not_found) = Len(tracks)

\* C18: for every track list and every behaviour of the catalog the run
\* reaches its end with all tracks processed; a search makes at most 3
\* attempts, each requesting each tier at most once, and a track issues at
\* most one download request.
C18_RunTerminates == <>(pc = "done") /\ []C18_Bounded

\* The run over two tracks is at its end, one downloaded, one not found.
C18_Witness ==
  /\ pc = "done"
  /\ Len(tracks) = 2
  /\ Len(downloaded) = 1 /\ Len(not_found) = 1
  /\ reports.downloaded = Written(downloaded)

\* The names an archive file can have in OUT_DIR
ArchiveNames == {ZipName(d.id) : d \in {D1, D2, D3, D4, D5, D6, D7, D8, D9}}

\* What the extraction of a sound archive puts into a directory
SoundEntries == UNION {Range(a.entries) : a \in {b \in Archives : b.good}}

DirOf(t) == DestDir(Get(t.artist, <<>>), t.track)

\* The tracks whose label is in downloaded
DownloadedTracks == {t \in Range(tracks) : Label(t) \in Range(downloaded)}

C19_State ==
  \A t \in DownloadedTracks :
    /\ DirOf(t) \in DOMAIN fs
    /\ SoundEntries \subseteq Files(DirOf(t))
    /\ \A z \in Files(DirOf(t)) \cap ArchiveNames :
         \/ pc \in {"extract", "unlink"} /\ DirOf(t) = dest_dir /\ z = zip_name
         \/ \E k \in 1..Finished :
              /\ Label(tracks[k]) \in Range(not_found)
              /\ DirOf(tracks[k]) = DirOf(t)

\* When a track is appended to downloaded its own archive file is gone and
\* its entries are in its directory
C19_Step ==
  downloaded' # downloaded =>
    (/\ zip_name \notin In(fs', dest_dir)
     /\ Range(archive.entries) \subseteq In(fs', dest_dir))

====
